---- MODULE Spec2Model ----
(***************************************************************************)
(* Model of ProfitAnalyzer (src/app.py): the Transaction table, the upload *)
(* directory and the Flask handlers add_transaction, analysis,             *)
(* edit_transaction, update_transaction and delete_transaction.            *)
(*                                                                         *)
(* Text (form fields, query parameters, file names) is a sequence of       *)
(* one-character strings.  An amount is counted in hundredths.  A date is  *)
(* <<year, month, day>>, a time is <<hour, minute>>.                       *)
(***************************************************************************)
EXTENDS Integers, Sequences, FiniteSets, TLC

VARIABLES store, files, last

vars == <<store, files, last>>

\* Largest primary key the model lets the table assign.
MaxId == 2

\* Python's None / a request parameter that was not sent.
None == <<"None">>

-----------------------------------------------------------------------------
(* Characters *)

DigitChars == <<"0", "1", "2", "3", "4", "5", "6", "7", "8", "9">>

UpperChars == <<"A", "B", "C", "D", "E", "F", "G", "H", "I", "J", "K", "L", "M",
                "N", "O", "P", "Q", "R", "S", "T", "U", "V", "W", "X", "Y", "Z">>

LowerChars == <<"a", "b", "c", "d", "e", "f", "g", "h", "i", "j", "k", "l", "m",
                "n", "o", "p", "q", "r", "s", "t", "u", "v", "w", "x", "y", "z">>

Range(f) == {f[i] : i \in DOMAIN f}

DigitSet == Range(DigitChars)

IsDigit(c) == c \in DigitSet

DigitVal(c) == CASE c = "0" -> 0 [] c = "1" -> 1 [] c = "2" -> 2 [] c = "3" -> 3
                 [] c = "4" -> 4 [] c = "5" -> 5 [] c = "6" -> 6 [] c = "7" -> 7
                 [] c = "8" -> 8 [] c = "9" -> 9

IsSpace(c) == c = " "

AllDigits(s) == \A i \in DOMAIN s : IsDigit(s[i])

RECURSIVE NumValTo(_, _)
NumValTo(s, n) == IF n = 0 THEN 0 ELSE 10 * NumValTo(s, n - 1) + DigitVal(s[n])

\* int(s) of a run of digits.
NumVal(s) == NumValTo(s, Len(s))

\* First position of a character of cs in s, or 0.
RECURSIVE IndexFrom(_, _, _)
IndexFrom(s, cs, i) == IF i > Len(s) THEN 0
                       ELSE IF s[i] \in cs THEN i
                       ELSE IndexFrom(s, cs, i + 1)

IndexOf(s, cs) == IndexFrom(s, cs, 1)

\* str.lower() on ASCII text.
LowerChar(c) == IF c \in Range(UpperChars)
                THEN LowerChars[CHOOSE i \in DOMAIN UpperChars : UpperChars[i] = c]
                ELSE c

\* str.strip(): leading and trailing whitespace removed.
RECURSIVE LStrip(_)
LStrip(s) == IF s # <<>> /\ IsSpace(Head(s)) THEN LStrip(Tail(s)) ELSE s

RECURSIVE RStrip(_)
RStrip(s) == IF s # <<>> /\ IsSpace(s[Len(s)]) THEN RStrip(SubSeq(s, 1, Len(s) - 1)) ELSE s

Strip(s) == RStrip(LStrip(s))

-----------------------------------------------------------------------------
(* float(request.form['amount']): optional surrounding whitespace, an       *)
(* optional sign, digits with an optional decimal point.  The value is in   *)
(* hundredths; the model's inputs carry at most two decimals.               *)

FloatBody(s) ==
    LET dot  == IndexOf(s, {"."})
        ip   == IF dot = 0 THEN s ELSE SubSeq(s, 1, dot - 1)
        fp   == IF dot = 0 THEN <<>> ELSE SubSeq(s, dot + 1, Len(s))
        frac == IF Len(fp) = 0 THEN 0
                ELSE IF Len(fp) = 1 THEN 10 * NumVal(fp)
                ELSE NumVal(SubSeq(fp, 1, 2))
    IN  IF AllDigits(ip) /\ AllDigits(fp) /\ Len(ip) + Len(fp) > 0
        THEN [ok |-> TRUE, val |-> 100 * NumVal(ip) + frac]
        ELSE [ok |-> FALSE, val |-> 0]

ParseFloat(text) ==
    LET s    == Strip(text)
        neg  == s # <<>> /\ Head(s) = "-"
        sgn  == s # <<>> /\ Head(s) \in {"-", "+"}
        body == FloatBody(IF sgn THEN Tail(s) ELSE s)
    IN  IF body.ok /\ neg THEN [ok |-> TRUE, val |-> 0 - body.val] ELSE body

-----------------------------------------------------------------------------
(* datetime.strptime *)

IsLeap(y) == (y % 4 = 0 /\ y % 100 # 0) \/ y % 400 = 0

DaysInMonth(y, m) == IF m = 2 THEN (IF IsLeap(y) THEN 29 ELSE 28)
                     ELSE IF m \in {4, 6, 9, 11} THEN 30 ELSE 31

\* %Y is exactly four digits; %m and %d are one or two digits, never zero.
YearField(s) == Len(s) = 4 /\ AllDigits(s)

MonthField(s) == Len(s) \in {1, 2} /\ AllDigits(s) /\ s # <<"0">> /\ NumVal(s) \in 1..12

DayField(s) == Len(s) \in {1, 2} /\ AllDigits(s) /\ s # <<"0">> /\ NumVal(s) \in 1..31

\* %H is one or two digits up to 23, %M one or two digits up to 59.
HourField(s) == Len(s) \in {1, 2} /\ AllDigits(s) /\ NumVal(s) \in 0..23

MinuteField(s) == Len(s) \in {1, 2} /\ AllDigits(s) /\ NumVal(s) \in 0..59

BadDate == [ok |-> FALSE, date |-> <<0, 0, 0>>]

\* datetime.strptime(text, '%Y-%m-%d').date(); ok = FALSE is ValueError.
ParseDate(text) ==
    LET d1   == IndexOf(text, {"-"})
        rest == SubSeq(text, d1 + 1, Len(text))
        d2   == IndexOf(rest, {"-"})
        Y    == SubSeq(text, 1, d1 - 1)
        m    == SubSeq(rest, 1, d2 - 1)
        d    == SubSeq(rest, d2 + 1, Len(rest))
        year  == NumVal(Y)
        month == NumVal(m)
        day   == NumVal(d)
    IN  IF d1 = 0 \/ d2 = 0 THEN BadDate
        ELSE IF ~(YearField(Y) /\ MonthField(m) /\ DayField(d)) THEN BadDate
        ELSE IF year < 1 \/ day > DaysInMonth(year, month) THEN BadDate
        ELSE [ok |-> TRUE, date |-> <<year, month, day>>]

BadDateTime == [ok |-> FALSE, date |-> <<0, 0, 0>>, time |-> <<0, 0>>]

\* datetime.strptime(text, '%Y-%m-%dT%H:%M'); the literal T matches in
\* either case (the format is compiled with re.IGNORECASE).
ParseDateTime(text) ==
    LET t    == IndexOf(text, {"T", "t"})
        dp   == ParseDate(SubSeq(text, 1, t - 1))
        tp   == SubSeq(text, t + 1, Len(text))
        c    == IndexOf(tp, {":"})
        H    == SubSeq(tp, 1, c - 1)
        M    == SubSeq(tp, c + 1, Len(tp))
    IN  IF t = 0 \/ c = 0 THEN BadDateTime
        ELSE IF ~(dp.ok /\ HourField(H) /\ MinuteField(M)) THEN BadDateTime
        ELSE [ok |-> TRUE, date |-> dp.date, time |-> <<NumVal(H), NumVal(M)>>]

\* start > end on datetime.date values.
DateLess(a, b) ==
    \/ a[1] < b[1]
    \/ a[1] = b[1] /\ a[2] < b[2]
    \/ a[1] = b[1] /\ a[2] = b[2] /\ a[3] < b[3]

DateLeq(a, b) == a = b \/ DateLess(a, b)

-----------------------------------------------------------------------------
(* werkzeug.utils.secure_filename on ASCII text (POSIX: os.sep is "/").     *)

FilenameChars ==
    Range(DigitChars) \cup Range(UpperChars) \cup Range(LowerChars) \cup {"_", ".", "-"}

\* filename.replace("/", " ")
ReplaceSep(s) == [i \in DOMAIN s |-> IF s[i] = "/" THEN " " ELSE s[i]]

\* "_".join(s.split()): runs of whitespace become one "_", none at the ends.
RECURSIVE JoinWords(_)
JoinWords(s) ==
    IF s = <<>> THEN <<>>
    ELSE IF IsSpace(Head(s))
         THEN (IF LStrip(s) = <<>> THEN <<>> ELSE <<"_">> \o JoinWords(LStrip(s)))
         ELSE <<Head(s)>> \o JoinWords(Tail(s))

SplitJoin(s) == JoinWords(Strip(s))

\* _filename_ascii_strip_re.sub("", s): drop what is not in [A-Za-z0-9_.-].
KeepFilenameChars(s) == SelectSeq(s, LAMBDA c : c \in FilenameChars)

\* str.strip("._")
RECURSIVE LStripDots(_)
LStripDots(s) == IF s # <<>> /\ Head(s) \in {".", "_"} THEN LStripDots(Tail(s)) ELSE s

RECURSIVE RStripDots(_)
RStripDots(s) == IF s # <<>> /\ s[Len(s)] \in {".", "_"}
                 THEN RStripDots(SubSeq(s, 1, Len(s) - 1)) ELSE s

secure_filename(filename) ==
    RStripDots(LStripDots(KeepFilenameChars(SplitJoin(ReplaceSep(filename)))))

\* f"uploads/{filename}"
UploadsPath(filename) == <<"u", "p", "l", "o", "a", "d", "s", "/">> \o filename

-----------------------------------------------------------------------------
(* Transaction.name.ilike(pattern): LIKE without regard to ASCII case; in   *)
(* the pattern "%" stands for any run of characters and "_" for any one.    *)

RECURSIVE LikeMatch(_, _)
LikeMatch(p, s) ==
    IF p = <<>> THEN s = <<>>
    ELSE IF Head(p) = "%"
         THEN LikeMatch(Tail(p), s) \/ (s # <<>> /\ LikeMatch(p, Tail(s)))
    ELSE IF s = <<>> THEN FALSE
    ELSE IF Head(p) = "_" \/ LowerChar(Head(p)) = LowerChar(Head(s))
         THEN LikeMatch(Tail(p), Tail(s))
    ELSE FALSE

ilike(name, pattern) == LikeMatch(pattern, name)

-----------------------------------------------------------------------------
(* Requests.  An amount or date_time a user submits is written with what   *)
(* the user means by it: whether it is well formed (ok) and its value.      *)

A_b == <<"A", "_", "b">>

Coffee == <<"C", "o", "f", "f", "e", "e">>

Sale == <<"S", "a", "l", "e">>

GroceryStore == <<"G", "r", "o", "c", "e", "r", "y", " ", "S", "t", "o", "r", "e">>

Refund == <<"r", "e", "f", "u", "n", "d">>

Amount450 == [text |-> <<"4", ".", "5", "0">>, ok |-> TRUE, val |-> 450]

Amount100 == [text |-> <<"1", "0", "0">>, ok |-> TRUE, val |-> 10000]

Amount30 == [text |-> <<"3", "0">>, ok |-> TRUE, val |-> 3000]

AmountNeg30 == [text |-> <<"-", "3", "0">>, ok |-> TRUE, val |-> -3000]

AmountAbc == [text |-> <<"a", "b", "c">>, ok |-> FALSE, val |-> 0]

DateTimeMar1 ==
    [text |-> <<"2", "0", "2", "4", "-", "0", "3", "-", "0", "1", "T", "0", "9", ":", "0", "0">>,
     ok |-> TRUE, date |-> <<2024, 3, 1>>, time |-> <<9, 0>>]

DateTimeJan5 ==
    [text |-> <<"2", "0", "2", "4", "-", "1", "-", "5", "t", "7", ":", "0", "5">>,
     ok |-> TRUE, date |-> <<2024, 1, 5>>, time |-> <<7, 5>>]

DateTimeJan10 ==
    [text |-> <<"2", "0", "2", "4", "-", "0", "1", "-", "1", "0", "T", "1", "7", ":", "3", "0">>,
     ok |-> TRUE, date |-> <<2024, 1, 10>>, time |-> <<17, 30>>]

DateTimeFeb30 ==
    [text |-> <<"2", "0", "2", "4", "-", "0", "2", "-", "3", "0", "T", "0", "9", ":", "0", "0">>,
     ok |-> FALSE, date |-> <<0, 0, 0>>, time |-> <<0, 0>>]

R1Png == <<"r", "1", ".", "p", "n", "g">>

R2PngInDir == <<".", ".", "/", "r", " ", "2", ".", "p", "n", "g">>

DotDot == <<".", ".">>

Form(name, transaction_type, amount, date_time) ==
    [name |-> name, transaction_type |-> transaction_type,
     amount |-> amount, date_time |-> date_time]

Args(search_type, search, start_date, end_date) ==
    [search_type |-> search_type, search |-> search,
     start_date |-> start_date, end_date |-> end_date]

NoArgs == Args(None, None, None, None)

\* The literals the handlers compare against.
TRANSACTIONS == <<"t", "r", "a", "n", "s", "a", "c", "t", "i", "o", "n", "s">>

TOTALS == <<"t", "o", "t", "a", "l", "s">>

NAME == <<"n", "a", "m", "e">>

INVESTMENT == <<"i", "n", "v", "e", "s", "t", "m", "e", "n", "t">>

EXPENDITURE == <<"e", "x", "p", "e", "n", "d", "i", "t", "u", "r", "e">>

SALES == <<"s", "a", "l", "e", "s">>

(* Creating, editing and deleting, with and without receipts, with          *)
(* malformed fields and with a failing disk or database.                    *)

CrudForms ==
    {Form(Coffee, EXPENDITURE, Amount450, DateTimeMar1),
     Form(Sale, SALES, Amount100, DateTimeJan5),
     Form(Sale, SALES, AmountAbc, DateTimeMar1),
     Form(Coffee, EXPENDITURE, Amount100, DateTimeFeb30)}

CrudReceipts == {None, <<>>, R1Png, R2PngInDir, DotDot}

(* Every combination of the /analysis parameters over a small table.       *)

DispatchForms ==
    {Form(Coffee, EXPENDITURE, Amount450, DateTimeMar1),
     Form(Sale, SALES, Amount100, DateTimeJan5)}

Profit_ == <<"p", "r", "o", "f", "i", "t">>

Jan1 == <<"2", "0", "2", "4", "-", "0", "1", "-", "0", "1">>

Jan5 == <<"2", "0", "2", "4", "-", "1", "-", "5">>

Jan10 == <<"2", "0", "2", "4", "-", "0", "1", "-", "1", "0">>

Jan31 == <<"2", "0", "2", "4", "-", "0", "1", "-", "3", "1">>

Feb1 == <<"2", "0", "2", "4", "-", "0", "2", "-", "0", "1">>

Mar31 == <<"2", "0", "2", "4", "-", "0", "3", "-", "3", "1">>

UsDate == <<"0", "1", "/", "3", "1", "/", "2", "0", "2", "4">>

DispatchArgs ==
    {Args(search_type, search, start_date, end_date) :
        search_type \in {None, <<>>, TRANSACTIONS, TOTALS, NAME, Profit_},
        search      \in {None, <<" ">>, <<"c", "o">>},
        start_date  \in {None, <<>>, Jan1, Feb1},
        end_date    \in {None, <<>>, Jan31, UsDate}}

(* Date-range listings over tables whose rows differ in date.               *)

RangeForms ==
    {Form(Sale, SALES, Amount100, date_time) :
        date_time \in {DateTimeJan5, DateTimeJan10, DateTimeMar1}}

RangeArgs ==
    {Args(TRANSACTIONS, None, start_date, end_date) :
        start_date \in {Jan1, Jan5, Jan10, Feb1},
        end_date   \in {Jan5, Jan10, Jan31, Mar31}}

(* Totals over tables whose rows differ in type, amount and date.           *)

TotalsForms ==
    {Form(Sale, transaction_type, amount, date_time) :
        transaction_type \in {INVESTMENT, EXPENDITURE, SALES, Refund},
        amount           \in {Amount100, Amount30},
        date_time        \in {DateTimeJan5, DateTimeJan10}}
    \cup {Form(Sale, EXPENDITURE, AmountNeg30, DateTimeJan5)}

TotalsArgs ==
    {Args(TOTALS, None, start_date, end_date) :
        start_date \in {Jan1, Jan10, Feb1},
        end_date   \in {Jan5, Jan10, Jan31}} \cup {NoArgs}

(* Name search over tables whose rows differ in name and date.              *)

SearchForms ==
    {Form(name, SALES, Amount100, date_time) :
        name      \in {GroceryStore, A_b, Coffee},
        date_time \in {DateTimeJan5, DateTimeJan10}}

SearchArgs ==
    {Args(NAME, search, None, None) :
        search \in {None, <<" ">>, <<"g", "r", "o", "c", "e", "r", "y">>, <<"S", "T", "O", "R", "E">>, <<"o", "c", "e", "r", "y", " ", "s", "t", "o">>, <<" ", "b", " ">>,
                    <<"_">>, <<"%">>, <<"a", "_">>, <<"z", "z">>}}

AllForms == CrudForms \cup DispatchForms \cup RangeForms \cup TotalsForms \cup SearchForms

AllReceipts == CrudReceipts

AllArgs == {NoArgs} \cup DispatchArgs \cup RangeArgs \cup TotalsArgs \cup SearchArgs

(* The conversions below are tabulated once over the texts that occur in   *)
(* requests; the handlers look the result up.                               *)

AmountTexts == {f.amount.text : f \in AllForms}

DateTimeTexts == {f.date_time.text : f \in AllForms}

DateTexts == {a.start_date : a \in AllArgs} \cup {a.end_date : a \in AllArgs}

FilenameTexts == AllReceipts

FloatTable == [text \in AmountTexts |-> ParseFloat(text)]

DateTimeTable == [text \in DateTimeTexts |-> ParseDateTime(text)]

DateTable == [text \in DateTexts |-> ParseDate(text)]

FilenameTable == [text \in FilenameTexts |-> secure_filename(text)]

\* float(text)
float(text) == FloatTable[text]

\* datetime.strptime(text, '%Y-%m-%dT%H:%M')
strptime_minutes(text) == DateTimeTable[text]

\* datetime.strptime(text, '%Y-%m-%d').date()
strptime_date(text) == DateTable[text]

\* secure_filename(file.filename)
sanitized(text) == FilenameTable[text]

-----------------------------------------------------------------------------
(* The Transaction table and the handlers *)

Max(S) == CHOOSE x \in S : \A y \in S : y <= x

\* The integer primary key of a new row: one more than the largest in use.
NextId == IF DOMAIN store = {} THEN 1 ELSE Max(DOMAIN store) + 1

\* Transaction(name=..., ..., receipt_image=file_path)
Transaction(name, transaction_type, amount, date_time, file_path) ==
    [name             |-> name,
     transaction_type |-> transaction_type,
     amount           |-> amount.val,
     date             |-> date_time.date,
     time             |-> date_time.time,
     receipt_image    |-> file_path]

\* db.session.add(row); db.session.commit()
Insert(table, id, row) == [i \in DOMAIN table \cup {id} |-> IF i = id THEN row ELSE table[i]]

\* A delete that is not restricted to the row.
DeleteRowUnfiltered(table, id) == [i \in {} |-> table[i]]

\* db.session.delete(row); db.session.commit()
DeleteRow(table, id) == [i \in DOMAIN table \ {id} |-> table[i]]

\* os.path.join(UPLOAD_FOLDER, filename) with an empty name is the upload
\* directory itself, which file.save cannot open for writing.
IsUploadFolder(filename) == filename = <<>>

\* A save that clears the upload directory first.
SaveFileAlone(dir, filename) == {filename}

\* file.save(os.path.join(UPLOAD_FOLDER, filename)): the directory gains the
\* file, or the file of that name gets the new content.
SaveFile(dir, filename) == dir \cup {filename}

\* The answers the file system and the database can give: TRUE, the write
\* went through, and FALSE, it raised.
Answers == BOOLEAN

Init ==
    /\ store = [i \in {} |-> 0]
    /\ files = {}
    /\ last = [op |-> "start"]

\* GET /
index ==
    /\ last' = [op |-> "index", status |-> "render"]
    /\ UNCHANGED <<store, files>>

\* What add_transaction leaves behind when its try block raises.
AddFailed(req, error) ==
    /\ last' = [req EXCEPT !.error = error]
    /\ store' = store

\* POST /add_transaction.  receipt is the uploaded file's name, None when
\* the request has no receipt part.  oks are the answers the file system
\* and the database may give.
add_transaction(form, receipt, oks) ==
    LET amount    == float(form.amount.text)
        date_time == strptime_minutes(form.date_time.text)
        filename  == sanitized(receipt)
        file_path == UploadsPath(filename)
        req       == [op |-> "add", form |-> form, receipt |-> receipt,
                      status |-> "redirect_index", error |-> "", id |-> 0]
    IN  /\ NextId <= MaxId
        /\ IF ~amount.ok \/ ~date_time.ok
           THEN AddFailed(req, "ValueError") /\ files' = files
           ELSE IF receipt = None
           THEN AddFailed(req, "KeyError") /\ files' = files
           ELSE IF IsUploadFolder(filename)
           THEN AddFailed(req, "IsADirectoryError") /\ files' = files
           ELSE \E saveOk \in oks :
                IF ~saveOk
                THEN AddFailed(req, "OSError") /\ files' = files
                ELSE /\ files' = SaveFile(files, filename)
                     /\ \E commitOk \in oks :
                           IF commitOk
                           THEN /\ store' = Insert(store, NextId,
                                        Transaction(form.name, form.transaction_type,
                                                    amount, date_time, file_path))
                                /\ last' = [req EXCEPT !.id = NextId]
                           ELSE AddFailed(req, "DBError")

\* GET /edit/<id>: Transaction.query.get_or_404(id)
edit_transaction(id) ==
    /\ last' = IF id \in DOMAIN store
               THEN [op |-> "edit", id |-> id, status |-> "render", transaction |-> store[id]]
               ELSE [op |-> "edit", id |-> id, status |-> "404"]
    /\ UNCHANGED <<store, files>>

\* The row as the session holds it after lines 239-240.
AssignNameType(row, form) ==
    [row EXCEPT !.name = form.name, !.transaction_type = form.transaction_type]

\* An update that forgets the time of day.
AssignAmountDateOnly(row, amount, date_time) ==
    [row EXCEPT !.amount = amount.val, !.date = date_time.date]

\* ... after lines 241-244.
AssignAmountDate(row, amount, date_time) ==
    [row EXCEPT !.amount = amount.val, !.date = date_time.date, !.time = date_time.time]

\* 'receipt' in request.files and file.filename != ''
HasNewReceipt(receipt) == receipt # None /\ receipt # <<>>

\* ... after line 252.
AssignReceipt(row, filename) == [row EXCEPT !.receipt_image = UploadsPath(filename)]

\* An except branch that commits what the session holds.
UpdateFailedCommitsPending(req, pending, error) ==
    /\ last' = [req EXCEPT !.status = "redirect_edit", !.error = error]
    /\ store' = [store EXCEPT ![req.id] = pending]

\* The except branch of update_transaction: nothing was committed, and the
\* request's session is discarded with its pending changes.
UpdateFailed(req, pending, error) ==
    /\ last' = [req EXCEPT !.status = "redirect_edit", !.error = error]
    /\ store' = store

\* POST /update/<id>
update_transaction(id, form, receipt, oks) ==
    LET req == [op |-> "update", id |-> id, form |-> form, receipt |-> receipt,
                status |-> "redirect_analysis", error |-> ""]
    IN  IF id \notin DOMAIN store
        THEN /\ last' = [req EXCEPT !.status = "404"]
             /\ UNCHANGED <<store, files>>
        ELSE LET t1        == AssignNameType(store[id], form)
                 amount    == float(form.amount.text)
                 date_time == strptime_minutes(form.date_time.text)
                 t2        == AssignAmountDate(t1, amount, date_time)
                 filename  == sanitized(receipt)
                 t3        == IF HasNewReceipt(receipt) THEN AssignReceipt(t2, filename) ELSE t2
             IN  IF ~amount.ok \/ ~date_time.ok
                 THEN UpdateFailed(req, t1, "ValueError") /\ files' = files
                 ELSE IF HasNewReceipt(receipt) /\ IsUploadFolder(filename)
                 THEN UpdateFailed(req, t2, "IsADirectoryError") /\ files' = files
                 ELSE \E saveOk \in (IF HasNewReceipt(receipt) THEN oks ELSE {TRUE}) :
                      IF ~saveOk
                      THEN UpdateFailed(req, t2, "OSError") /\ files' = files
                      ELSE /\ files' = IF HasNewReceipt(receipt)
                                       THEN SaveFile(files, filename) ELSE files
                           /\ \E commitOk \in oks :
                                 IF commitOk
                                 THEN /\ store' = [store EXCEPT ![id] = t3]
                                      /\ last' = req
                                 ELSE UpdateFailed(req, t3, "DBError")

\* POST /delete/<id>
delete_transaction(id, oks) ==
    LET req == [op |-> "delete", id |-> id, status |-> "redirect_analysis", error |-> ""]
    IN  /\ files' = files
        /\ IF id \notin DOMAIN store
           THEN last' = [req EXCEPT !.status = "404"] /\ store' = store
           ELSE \E commitOk \in oks :
                   IF commitOk
                   THEN last' = req /\ store' = DeleteRow(store, id)
                   ELSE last' = [req EXCEPT !.error = "DBError"] /\ store' = store

-----------------------------------------------------------------------------
(* GET /analysis *)

\* Python truth of an optional string: neither None nor ''.
Truthy(v) == v # None /\ v # <<>>

\* request.args.get('search', '').strip()
SearchQuery(search) == Strip(IF search = None THEN <<>> ELSE search)

\* A range that leaves out its last day.
BetweenHalfOpen(d, start, end) == DateLeq(start, d) /\ DateLess(d, end)

\* Transaction.date.between(start, end)
Between(d, start, end) == DateLeq(start, d) /\ DateLeq(d, end)

\* f'%{search_query}%'
LikePattern(search_query) == <<"%">> \o search_query \o <<"%">>

\* .order_by(Transaction.date.desc()).all(): the rows ids in some order of
\* descending date (rows of one date come in an order the database picks).
OrderByDateDesc(ids) ==
    {s \in [1..Cardinality(ids) -> ids] :
        /\ \A i, j \in DOMAIN s : i # j => s[i] # s[j]
        /\ \A i, j \in DOMAIN s : i < j => DateLeq(store[s[j]].date, store[s[i]].date)}

RECURSIVE SumAmounts(_)
SumAmounts(ids) == IF ids = {} THEN 0
                   ELSE LET i == CHOOSE x \in ids : TRUE
                        IN  store[i].amount + SumAmounts(ids \ {i})

\* db.session.query(db.func.sum(Transaction.amount)).filter(...).scalar():
\* NULL when no row matches.
ScalarSum(ids) == [null |-> ids = {}, val |-> SumAmounts(ids)]

\* x or 0
OrZero(x) == IF x.null \/ x.val = 0 THEN 0 ELSE x.val

\* filter(Transaction.transaction_type == t, Transaction.date.between(start, end))
TypeInRange(t, start, end) ==
    {i \in DOMAIN store : store[i].transaction_type = t /\ Between(store[i].date, start, end)}

\* filter_by(transaction_type=t)
TypeRows(t) == {i \in DOMAIN store : store[i].transaction_type = t}

\* The formula without its parentheses.
ProfitUnparenthesized(sales, investments, expenditures) == sales - investments + expenditures

Profit(sales, investments, expenditures) == sales - (investments + expenditures)

TotalsOf(investments, expenditures, sales) ==
    [investments  |-> investments,
     expenditures |-> expenditures,
     sales        |-> sales,
     profit       |-> Profit(sales, investments, expenditures)]

\* Lines 148-163.
RangeTotals(start, end) ==
    TotalsOf(OrZero(ScalarSum(TypeInRange(INVESTMENT, start, end))),
             OrZero(ScalarSum(TypeInRange(EXPENDITURE, start, end))),
             OrZero(ScalarSum(TypeInRange(SALES, start, end))))

\* Lines 205-208.
DefaultTotals ==
    TotalsOf(OrZero(ScalarSum(TypeRows(INVESTMENT))),
             OrZero(ScalarSum(TypeRows(EXPENDITURE))),
             OrZero(ScalarSum(TypeRows(SALES))))

\* Lines 120-122.
DateRangeRows(start, end) == {i \in DOMAIN store : Between(store[i].date, start, end)}

\* Lines 188-190.
NameRows(search_query) ==
    {i \in DOMAIN store : ilike(store[i].name, LikePattern(search_query))}

\* redirect(url_for('analysis'))
Redirected(args, shape) ==
    last' = [op |-> "analysis", args |-> args, shape |-> shape,
             status |-> "redirect_analysis"]

\* render_template('analysis.html', search_results=..., totals=...)
Rendered(args, shape, search_results, totals) ==
    last' = [op |-> "analysis", args |-> args, shape |-> shape, status |-> "render",
             search_results |-> search_results, totals |-> totals]

\* The guards of the three if statements, in the order of the code.
IsListing(args) ==
    args.search_type = TRANSACTIONS /\ Truthy(args.start_date) /\ Truthy(args.end_date)

IsRangeTotals(args) ==
    args.search_type = TOTALS /\ Truthy(args.start_date) /\ Truthy(args.end_date)

\* A name search that does not look at search_type.
IsNameSearchAnyType(args) == SearchQuery(args.search) # <<>>

IsNameSearch(args) == args.search_type = NAME /\ SearchQuery(args.search) # <<>>

analysis(args) ==
    LET search_query == SearchQuery(args.search)
        start        == strptime_date(args.start_date)
        end          == strptime_date(args.end_date)
    IN  /\ UNCHANGED <<store, files>>
        /\ IF IsListing(args)
           THEN IF ~start.ok \/ ~end.ok \/ DateLess(end.date, start.date)
                THEN Redirected(args, "listing")
                ELSE \E search_results \in OrderByDateDesc(DateRangeRows(start.date, end.date)) :
                        Rendered(args, "listing", search_results, None)
           ELSE IF IsRangeTotals(args)
           THEN IF ~start.ok \/ ~end.ok \/ DateLess(end.date, start.date)
                THEN Redirected(args, "range_totals")
                ELSE Rendered(args, "range_totals", None, RangeTotals(start.date, end.date))
           ELSE IF IsNameSearch(args)
           THEN \E search_results \in OrderByDateDesc(NameRows(search_query)) :
                    Rendered(args, "name", search_results, None)
           ELSE Rendered(args, "default_totals", None, DefaultTotals)

-----------------------------------------------------------------------------
(* The application *)

\* One step of the application: any handler, on a request drawn from the
\* given forms, receipt uploads, environment answers and query strings.
NextWith(forms, receipts, oks, argsSet) ==
    \/ index
    \/ \E form \in forms, receipt \in receipts : add_transaction(form, receipt, oks)
    \/ \E args \in argsSet : analysis(args)
    \/ \E id \in 1..MaxId : edit_transaction(id)
    \/ \E id \in 1..MaxId, form \in forms, receipt \in receipts :
          update_transaction(id, form, receipt, oks)
    \/ \E id \in 1..MaxId : delete_transaction(id, oks)

Next == NextWith(CrudForms, CrudReceipts, Answers, {NoArgs})

Spec == Init /\ [][Next]_vars

NextDispatch == NextWith(DispatchForms, {R1Png}, {TRUE}, DispatchArgs)

SpecDispatch == Init /\ [][NextDispatch]_vars

NextRange == NextWith(RangeForms, {R1Png}, {TRUE}, RangeArgs)

SpecRange == Init /\ [][NextRange]_vars

NextTotals == NextWith(TotalsForms, {R1Png}, {TRUE}, TotalsArgs)

SpecTotals == Init /\ [][NextTotals]_vars

NextSearch == NextWith(SearchForms, {R1Png}, {TRUE}, SearchArgs)

SpecSearch == Init /\ [][NextSearch]_vars

-----------------------------------------------------------------------------
(* Properties of creating, updating and deleting (specification Spec)     *)

\* The last request was an add whose amount and date_time are well formed.
ValidAdd == last.op = "add" /\ last.form.amount.ok /\ last.form.date_time.ok

\* The row holds what the form says.
RowEqualsForm(row, form) ==
    /\ row.name = form.name
    /\ row.transaction_type = form.transaction_type
    /\ row.amount = form.amount.val
    /\ row.date = form.date_time.date
    /\ row.time = form.date_time.time

\* The name under which an upload of the model's requests is to be stored.
SafeName(receipt) ==
    CASE receipt = R1Png -> R1Png
      [] receipt = R2PngInDir -> <<"r", "_", "2", ".", "p", "n", "g">>
      [] OTHER -> <<>>

\* C1: a create with valid name, type, amount and date_time and no receipt
\* upload (no receipt part, or one with an empty filename) leaves a record
\* in the table whose receipt_image is None.
C1_NoReceiptCreatesRecord ==
    (ValidAdd /\ last.receipt \in {None, <<>>})
        => /\ last.id \in DOMAIN store
           /\ store[last.id].receipt_image = None

\* C2: after every valid create that neither the disk nor the database
\* refused, the table holds a row under the newly assigned id whose name,
\* transaction_type, amount, date and time are the submitted ones.
C2_CreateRoundTrip ==
    (ValidAdd /\ last.error \notin {"OSError", "DBError"})
        => /\ last.id \in DOMAIN store
           /\ RowEqualsForm(store[last.id], last.form)

\* What holds of C2 in the code: a create that did insert a row inserted
\* the submitted values, under an id that was free.
CreatedRowEqualsForm ==
    (last.op = "add" /\ last.error = "")
        => /\ last.id \in DOMAIN store
           /\ RowEqualsForm(store[last.id], last.form)
           /\ store[last.id].receipt_image = UploadsPath(SafeName(last.receipt))

\* C6: the set of ids changes only by a create that inserts (one id that
\* was free) and a delete that commits (exactly its id, which is then
\* gone); get, update and delete answer 404 exactly for an id without a
\* row, and then change nothing; get returns the stored row.
C6Step ==
    LET ids  == DOMAIN store
        ids2 == DOMAIN store'
    IN  /\ ids2 # ids =>
              \/ /\ last'.op = "add"
                 /\ last'.error = ""
                 /\ last'.id \notin ids
                 /\ ids2 = ids \cup {last'.id}
              \/ /\ last'.op = "delete"
                 /\ last'.status # "404"
                 /\ last'.error = ""
                 /\ ids2 = ids \ {last'.id}
        /\ (last'.op = "add" /\ last'.error = "") => ids2 # ids
        /\ (last'.op = "delete" /\ last'.status # "404" /\ last'.error = "")
              => last'.id \in ids /\ last'.id \notin ids2
        /\ last'.op \in {"edit", "update", "delete"}
              => /\ last'.status = "404" <=> last'.id \notin ids
                 /\ last'.status = "404" => store' = store
        /\ (last'.op = "edit" /\ last'.status # "404")
              => last'.transaction = store[last'.id] /\ store' = store
        /\ \A i \in ids \cap ids2 : last'.op \notin {"update"} => store'[i] = store[i]

C6_IdsChangeOnlyByCreateDelete == [][C6Step]_vars

\* A delete has removed its row and left another row in the table.
C6_Witness ==
    /\ last.op = "delete"
    /\ last.status # "404"
    /\ last.error = ""
    /\ last.id \notin DOMAIN store
    /\ DOMAIN store # {}

\* C7: an update that commits writes the payload's name, transaction_type,
\* amount, date and time into the row of that id and into no other row;
\* receipt_image becomes uploads/<sanitized name> when a receipt with a
\* non-empty filename came with it, and is the old value otherwise.
C7Step ==
    (last'.op = "update" /\ last'.status = "redirect_analysis" /\ last'.error = "")
        => LET id == last'.id
           IN  /\ DOMAIN store' = DOMAIN store
               /\ id \in DOMAIN store
               /\ RowEqualsForm(store'[id], last'.form)
               /\ store'[id].receipt_image =
                     IF last'.receipt \notin {None, <<>>}
                     THEN UploadsPath(SafeName(last'.receipt))
                     ELSE store[id].receipt_image
               /\ \A i \in DOMAIN store \ {id} : store'[i] = store[i]

C7_UpdateOverwritesPayloadKeepsReceipt == [][C7Step]_vars

\* An update without a new file has committed: the row has the payload's
\* fields and still the receipt of an earlier upload.
C7_Witness ==
    /\ last.op = "update"
    /\ last.status = "redirect_analysis"
    /\ last.error = ""
    /\ last.receipt = <<>>
    /\ last.form.name = Sale
    /\ RowEqualsForm(store[last.id], last.form)
    /\ store[last.id].receipt_image = UploadsPath(SafeName(R2PngInDir))

\* C9: no request removes a file from the upload directory; a delete
\* leaves the directory as it was; an add whose file was saved and whose
\* insert failed leaves the file there and the table without a new row.
C9Step ==
    /\ files \subseteq files'
    /\ last'.op = "delete" => files' = files
    /\ (last'.op = "add" /\ last'.error = "DBError")
          => SafeName(last'.receipt) \in files' /\ store' = store

C9_FilesNeverShrink == [][C9Step]_vars

\* An add's insert failed after its file was saved: the file is there and
\* no row refers to it.
C9_Witness ==
    /\ last.op = "add"
    /\ last.error = "DBError"
    /\ SafeName(last.receipt) \in files
    /\ DOMAIN store # {}
    /\ \A i \in DOMAIN store :
          store[i].receipt_image # UploadsPath(SafeName(last.receipt))

\* C10: an add or update whose amount or date_time is malformed leaves the
\* table exactly as it was (and the upload directory too).
C10Step ==
    (/\ last'.op \in {"add", "update"}
     /\ last'.status # "404"
     /\ ~(last'.form.amount.ok /\ last'.form.date_time.ok))
        => /\ store' = store
           /\ files' = files
           /\ last'.error = "ValueError"

C10_InvalidRequestChangesNothing == [][C10Step]_vars

\* An update with a malformed field and another name than the row's was
\* refused, and the row still has its name.
C10_Witness ==
    /\ last.op = "update"
    /\ last.error = "ValueError"
    /\ last.id \in DOMAIN store
    /\ store[last.id].name # last.form.name

-----------------------------------------------------------------------------
(* Properties of /analysis (specifications SpecRange, SpecTotals,           *)
(* SpecDispatch and SpecSearch)                                             *)

\* The calendar date a date parameter of the model's requests stands for.
MeantDate(text) ==
    CASE text = Jan1  -> <<2024, 1, 1>>
      [] text = Jan5  -> <<2024, 1, 5>>
      [] text = Jan10 -> <<2024, 1, 10>>
      [] text = Jan31 -> <<2024, 1, 31>>
      [] text = Feb1  -> <<2024, 2, 1>>
      [] text = Mar31 -> <<2024, 3, 31>>

IsDateText(text) == text \in {Jan1, Jan5, Jan10, Jan31, Feb1, Mar31}

\* Dates as numbers that order as the calendar does.
DayNumber(d) == d[1] * 10000 + d[2] * 100 + d[3]

FirstDay == DayNumber(<<1, 1, 1>>)

LastDay == DayNumber(<<9999, 12, 31>>)

InDays(i, s, e) == s <= DayNumber(store[i].date) /\ DayNumber(store[i].date) <= e

\* ids lists every element of S once, in descending order of date.
ListsByDateDesc(ids, S) ==
    /\ {ids[k] : k \in DOMAIN ids} = S
    /\ Len(ids) = Cardinality(S)
    /\ \A j, k \in DOMAIN ids :
          j < k => DayNumber(store[ids[j]].date) >= DayNumber(store[ids[k]].date)

\* C3: with search_type = transactions and dates s <= e, the listing is
\* rendered with exactly the rows whose date is in [s, e], in descending
\* order of date; with s > e the answer is a redirect.
C3_DateRangeListing ==
    (/\ last.op = "analysis"
     /\ last.args.search_type = TRANSACTIONS
     /\ IsDateText(last.args.start_date)
     /\ IsDateText(last.args.end_date))
        => LET s == DayNumber(MeantDate(last.args.start_date))
               e == DayNumber(MeantDate(last.args.end_date))
           IN  IF s <= e
               THEN /\ last.status = "render"
                    /\ last.shape = "listing"
                    /\ ListsByDateDesc(last.search_results,
                                       {i \in DOMAIN store : InDays(i, s, e)})
               ELSE last.status = "redirect_analysis"

\* A listing of two rows in which the row added later comes first, being
\* of the later date.
C3_Witness ==
    /\ last.op = "analysis"
    /\ last.status = "render"
    /\ last.shape = "listing"
    /\ Len(last.search_results) = 2
    /\ last.search_results[1] > last.search_results[2]
    /\ store[last.search_results[1]].date # store[last.search_results[2]].date

\* The sum of the amounts of the rows 1..n of type t dated in [s, e].
RECURSIVE SumUpTo(_, _, _, _)
SumUpTo(n, t, s, e) ==
    IF n = 0 THEN 0
    ELSE SumUpTo(n - 1, t, s, e)
         + (IF n \in DOMAIN store /\ store[n].transaction_type = t /\ InDays(n, s, e)
            THEN store[n].amount ELSE 0)

SumOfType(t, s, e) == SumUpTo(Max(DOMAIN store \cup {0}), t, s, e)

ExpectedTotals(s, e) ==
    [investments  |-> SumOfType(INVESTMENT, s, e),
     expenditures |-> SumOfType(EXPENDITURE, s, e),
     sales        |-> SumOfType(SALES, s, e),
     profit       |-> SumOfType(SALES, s, e)
                      - (SumOfType(INVESTMENT, s, e) + SumOfType(EXPENDITURE, s, e))]

\* C4: with search_type = totals and dates s <= e, the totals rendered are
\* the sums of amount over the rows of each type dated in [s, e] (0 when
\* there is none) and profit = sales - (investments + expenditures); the
\* default totals are these sums over all rows, and so are the totals of a
\* range that contains every row's date.
C4_Totals ==
    last.op = "analysis" =>
        /\ (/\ last.args.search_type = TOTALS
            /\ IsDateText(last.args.start_date)
            /\ IsDateText(last.args.end_date)
            /\ DayNumber(MeantDate(last.args.start_date))
                  <= DayNumber(MeantDate(last.args.end_date)))
              => /\ last.status = "render"
                 /\ last.shape = "range_totals"
                 /\ last.totals = ExpectedTotals(DayNumber(MeantDate(last.args.start_date)),
                                                 DayNumber(MeantDate(last.args.end_date)))
        /\ last.shape = "default_totals"
              => last.status = "render" /\ last.totals = ExpectedTotals(FirstDay, LastDay)
        /\ (/\ last.shape = "range_totals"
            /\ last.status = "render"
            /\ \A i \in DOMAIN store :
                  InDays(i, DayNumber(MeantDate(last.args.start_date)),
                            DayNumber(MeantDate(last.args.end_date))))
              => last.totals = ExpectedTotals(FirstDay, LastDay)

\* Sales of 100 on 2024-01-05 and an expenditure of 30 on 2024-01-10: the
\* totals of January 2024 are 0, 30, 100 and a profit of 70.
C4_Witness ==
    /\ last.op = "analysis"
    /\ last.shape = "range_totals"
    /\ last.status = "render"
    /\ last.args.start_date = Jan1
    /\ last.args.end_date = Jan31
    /\ DOMAIN store = {1, 2}
    /\ store[1].transaction_type = SALES /\ store[1].amount = 10000
    /\ store[1].date = <<2024, 1, 5>>
    /\ store[2].transaction_type = EXPENDITURE /\ store[2].amount = 3000
    /\ store[2].date = <<2024, 1, 10>>
    /\ last.totals = [investments |-> 0, expenditures |-> 3000,
                      sales |-> 10000, profit |-> 7000]

\* A parameter that was sent and is not empty.
Present(v) == v # None /\ v # <<>>

\* A search parameter with something other than blanks in it.
NonBlank(v) == v # None /\ \E k \in DOMAIN v : v[k] # " "

\* The first of the four query shapes whose guard the parameters satisfy.
ExpectedShape(a) ==
    IF a.search_type = TRANSACTIONS /\ Present(a.start_date) /\ Present(a.end_date)
    THEN "listing"
    ELSE IF a.search_type = TOTALS /\ Present(a.start_date) /\ Present(a.end_date)
    THEN "range_totals"
    ELSE IF a.search_type = NAME /\ NonBlank(a.search)
    THEN "name"
    ELSE "default_totals"

\* C5: for every combination of search_type, search, start_date and
\* end_date the handler runs the first of date-range listing, date-range
\* totals, name search and default totals whose guard holds; when none of
\* the first three does, it renders the totals over all rows.
C5_Precedence ==
    last.op = "analysis" =>
        /\ last.shape = ExpectedShape(last.args)
        /\ last.shape \in {"name", "default_totals"} => last.status = "render"
        /\ last.shape = "default_totals" => last.totals = ExpectedTotals(FirstDay, LastDay)

\* search_type = name with a blank query and both dates: default totals.
C5_Witness ==
    /\ last.op = "analysis"
    /\ last.args.search_type = NAME
    /\ last.args.search = <<" ">>
    /\ last.args.start_date = Jan1
    /\ last.args.end_date = Jan31
    /\ last.shape = "default_totals"
    /\ DOMAIN store # {}

\* q occurs in name, letter case aside, every character standing for itself.
ContainsIgnoringCase(name, q) ==
    \E k \in 0..(Len(name) - Len(q)) :
        \A j \in 1..Len(q) : LowerChar(name[k + j]) = LowerChar(q[j])

\* C8: with search_type = name and a query that is not blank, the rows
\* rendered are exactly those whose name contains the trimmed query as a
\* substring, letter case aside and every character of the query taken
\* literally, in descending order of date.
C8_NameSearchLiteral ==
    (/\ last.op = "analysis"
     /\ last.args.search_type = NAME
     /\ NonBlank(last.args.search))
        => /\ last.status = "render"
           /\ last.shape = "name"
           /\ ListsByDateDesc(last.search_results,
                 {i \in DOMAIN store :
                     ContainsIgnoringCase(store[i].name, Strip(last.args.search))})

\* What holds of C8 in the code: the same, for a query without % and _.
NameSearchWithoutWildcards ==
    (/\ last.op = "analysis"
     /\ last.args.search_type = NAME
     /\ NonBlank(last.args.search)
     /\ \A k \in DOMAIN last.args.search : last.args.search[k] \notin {"%", "_"})
        => /\ last.status = "render"
           /\ last.shape = "name"
           /\ ListsByDateDesc(last.search_results,
                 {i \in DOMAIN store :
                     ContainsIgnoringCase(store[i].name, Strip(last.args.search))})

====
